---- MODULE Spec2Model ----
(***************************************************************************)
(* plantcv: pseudocolor (plantcv/plantcv/pseudocolor.py) and               *)
(* background_subtraction (plantcv/background_subtraction.py).             *)
(*                                                                         *)
(* An n-dimensional numpy array is a record [given, shape, data]: shape is *)
(* the tuple np.shape returns, data maps every index tuple (row, column,   *)
(* channel; zero based) to its sample.  None is the record with            *)
(* given = FALSE.  pyplot's current figure is process-wide state: every    *)
(* image and colorbar drawn on it is an object, named here by the value of *)
(* params.device of the call that created it and by its role.             *)
(***************************************************************************)
EXTENDS Integers, Sequences, FiniteSets, TLC

VARIABLES device, debug, fig, files, plotted, calls, last, bs

vars == <<device, debug, fig, files, plotted, calls, last, bs>>

\* ------------------------------------------------------------------ bounds

\* Number of pseudocolor calls explored in one process.
MaxCalls == 2

\* Largest height and width of the images given to background_subtraction.
MaxDim == 3

\* ------------------------------------------------------------- numpy arrays

\* np.zeros(...) + 255 as uint8: the sample of the "white" background.
WhiteSample == 255

\* matplotlib colormaps are lookup tables of 256 colours.
LutSize == 256

Indices(shape) ==
    IF Len(shape) = 1 THEN {<<i>> : i \in 0..(shape[1] - 1)}
    ELSE IF Len(shape) = 2
         THEN {<<r, c>> : r \in 0..(shape[1] - 1), c \in 0..(shape[2] - 1)}
         ELSE {<<r, c, k>> : r \in 0..(shape[1] - 1), c \in 0..(shape[2] - 1),
                             k \in 0..(shape[3] - 1)}

None == [given |-> FALSE, shape |-> <<>>, data |-> <<>>]

NdArray(shape, data) == [given |-> TRUE, shape |-> shape, data |-> data]

SetMin(S) == CHOOSE x \in S : \A y \in S : x <= y

SetMax(S) == CHOOSE x \in S : \A y \in S : x >= y

\* --------------------------------------------------- pseudocolor: the steps

\* Mutant: only an image with fewer than two axes is refused.
ImageHasTwoAxesOrMore(gray_img) == Len(gray_img.shape) >= 2

\* len(np.shape(gray_img)) != 2 is the fatal error "Image must be grayscale."
ImageIsGrayscale(gray_img) == Len(gray_img.shape) = 2

\* "if max != 255": max is Python's builtin function, which never equals 255,
\* so the guard holds for every max_value.
MaxGuard(max_value) == TRUE

\* "if min_value != 0"
MinGuard(min_value) == min_value # 0

\* gray_img[gray_img > max_value] = max_value
ClampMax(gray_img, max_value) ==
    IF MaxGuard(max_value)
    THEN [gray_img EXCEPT !.data =
             [p \in DOMAIN gray_img.data |->
                 IF gray_img.data[p] > max_value THEN max_value ELSE gray_img.data[p]]]
    ELSE gray_img

\* gray_img[gray_img < min_value] = min_value
ClampMin(gray_img, min_value) ==
    IF MinGuard(min_value)
    THEN [gray_img EXCEPT !.data =
             [p \in DOMAIN gray_img.data |->
                 IF gray_img.data[p] < min_value THEN min_value ELSE gray_img.data[p]]]
    ELSE gray_img

\* The two assignments, in the order of the code; both write into gray_img itself.
RangeClamp(gray_img, min_value, max_value) ==
    ClampMin(ClampMax(gray_img, max_value), min_value)

\* cv2.boundingRect(obj): the upright rectangle around the contour's points <<x, y>>.
BoundingRect(obj) ==
    LET xs == {p[1] : p \in obj.points}
        ys == {p[2] : p \in obj.points}
    IN  [x |-> SetMin(xs), y |-> SetMin(ys),
         w |-> SetMax(xs) - SetMin(xs) + 1, h |-> SetMax(ys) - SetMin(ys) + 1]

\* a[y0:y1, x0:x1]: numpy clips a slice to the array; later axes are kept whole.
Slice(a, y0, y1, x0, x1) ==
    LET r0 == IF y0 < a.shape[1] THEN y0 ELSE a.shape[1]
        r1 == IF y1 < a.shape[1] THEN y1 ELSE a.shape[1]
        c0 == IF x0 < a.shape[2] THEN x0 ELSE a.shape[2]
        c1 == IF x1 < a.shape[2] THEN x1 ELSE a.shape[2]
        shape == [a.shape EXCEPT ![1] = r1 - r0, ![2] = c1 - c0]
    IN  [given |-> TRUE, shape |-> shape,
         data |-> [p \in Indices(shape) |->
                      a.data[[p EXCEPT ![1] = p[1] + r0, ![2] = p[2] + c0]]]]

\* cv2.copyMakeBorder(src, top, bottom, left, right, cv2.BORDER_CONSTANT, value=(0, 0, 0))
CopyMakeBorder(src, top, bottom, left, right) ==
    LET shape == [src.shape EXCEPT ![1] = src.shape[1] + top + bottom,
                                   ![2] = src.shape[2] + left + right]
    IN  [given |-> TRUE, shape |-> shape,
         data |-> [p \in Indices(shape) |->
                      IF /\ p[1] - top \in 0..(src.shape[1] - 1)
                         /\ p[2] - left \in 0..(src.shape[2] - 1)
                      THEN src.data[[p EXCEPT ![1] = p[1] - top, ![2] = p[2] - left]]
                      ELSE 0]]

\* Mutant: the buffer rounded up.
OffsetRoundedUp(extent) == (extent + 4) \div 5

\* offsetx = int(w / 5), offsety = int(h / 5), for w, h >= 0
Offset(extent) == extent \div 5

\* crop_img = a[y:y + h, x:x + w], then the border of offsety rows and offsetx columns.
\* (img_copy and the rectangle drawn on it are never read again.)
CropWithBuffer(a, rect) ==
    CopyMakeBorder(Slice(a, rect.y, rect.y + rect.h, rect.x, rect.x + rect.w),
                   Offset(rect.h), Offset(rect.h), Offset(rect.w), Offset(rect.w))

\* mask.astype(np.bool): non-zero is True.
AsBool(sample) == sample # 0

\* Mutant: the mask handed to np.ma.array without the "~".
MaskedOutWhereTrue(mask) == [p \in DOMAIN mask.data |-> AsBool(mask.data[p])]

\* np.ma.array(gray_img, mask=~mask.astype(np.bool)): the entries that are masked
\* out (not drawn) are those where the caller's mask is zero.
MaskedOut(mask) == [p \in DOMAIN mask.data |-> ~AsBool(mask.data[p])]

\* np.ma.array raises MaskError when mask and data differ in size; the masks drawn
\* here differ from the field in size whenever they differ in shape.
MaskCompatible(gray_img, mask) == mask.shape = gray_img.shape

\* Mutant: no else branch, an unknown background is drawn like "image".
BackgroundAlwaysSupported(background) == TRUE

BackgroundSupported(background) == background \in {"black", "white", "image"}

\* bkg_img of the three branches (np.zeros(np.shape(gray_img)), + 255, gray_img)
BkgImg(background, gray_img) ==
    IF background = "black"
    THEN [gray_img EXCEPT !.data = [p \in DOMAIN gray_img.data |-> 0]]
    ELSE IF background = "white"
         THEN [gray_img EXCEPT !.data = [p \in DOMAIN gray_img.data |-> WhiteSample]]
         ELSE gray_img

\* Mutant: the white background drawn with the plain gray colormap.
BkgCmapPlain(background) == "gray"

\* bkg_cmap of the three branches
BkgCmap(background) == IF background = "white" THEN "gray_r" ELSE "gray"

\* One image drawn by plt.imshow: the object's name (by, role) and what it holds.
Layer(by, role, img, masked, cmap) ==
    [by |-> by, role |-> role, shape |-> img.shape, data |-> img.data,
     masked |-> masked, cmap |-> cmap]

Handle(layer) == [by |-> layer.by, role |-> layer.role]

NotMasked(img) == [p \in DOMAIN img.data |-> FALSE]

\* ------------------------------------------------------ pseudocolor: inputs

\* The scenario field of the specification: 10 x 10, constant 200.
Const200 == NdArray(<<10, 10>>, [p \in Indices(<<10, 10>>) |-> 200])

\* A 10 x 10 field with samples below 0 and above 255, different in every row
\* and column (-40 at the top left, 257 at the bottom right).
Ramp == NdArray(<<10, 10>>, [p \in Indices(<<10, 10>>) |-> 30 * p[1] + 3 * p[2] - 40])

\* A 2 x 3 field: -10 120 250 / 10 140 270.
Tiny == NdArray(<<2, 3>>, [p \in Indices(<<2, 3>>) |-> 130 * p[2] + 20 * p[1] - 10])

\* A three-channel image and a one-dimensional signal: not grayscale.
Cube == NdArray(<<2, 2, 3>>, [p \in Indices(<<2, 2, 3>>) |-> 100 + 100 * p[3]])

Line == NdArray(<<4>>, [p \in Indices(<<4>>) |-> 300])

AllFalse == NdArray(<<10, 10>>, [p \in Indices(<<10, 10>>) |-> 0])

\* Masks holding 0, 1 and 255.
Pattern ==
    NdArray(<<10, 10>>,
            [p \in Indices(<<10, 10>>) |-> IF (2 * p[1] + p[2]) % 3 = 0 THEN 0
                                           ELSE IF (2 * p[1] + p[2]) % 3 = 1 THEN 1 ELSE 255])

TinyMask ==
    NdArray(<<2, 3>>,
            [p \in Indices(<<2, 3>>) |-> IF (p[1] + p[2]) % 3 = 0 THEN 0
                                         ELSE IF (p[1] + p[2]) % 3 = 1 THEN 1 ELSE 255])

\* A 2 x 2 mask: of another size than Tiny, cropped or not.
SquareMask == NdArray(<<2, 2>>, [p \in Indices(<<2, 2>>) |-> IF p[1] = p[2] THEN 255 ELSE 0])

NoObj == [given |-> FALSE, points |-> {}]

Contour(points) == [given |-> TRUE, points |-> points]

\* Contours with the bounding rectangles (2, 2, 4, 4), (1, 1, 5, 4), (3, 0, 2, 10)
\* and (7, 8, 5, 2); the last one reaches beyond the right edge of a 10 x 10 field.
Objs ==
    {NoObj,
     Contour({<<2, 2>>, <<5, 2>>, <<5, 5>>, <<2, 5>>}),
     Contour({<<1, 1>>, <<5, 3>>, <<3, 4>>}),
     Contour({<<3, 0>>, <<4, 9>>}),
     Contour({<<7, 8>>, <<11, 9>>})}

\* A contour with the bounding rectangle (1, 0, 2, 2), inside a 2 x 3 field.
TinyObjs == {NoObj, Contour({<<1, 0>>, <<2, 1>>})}

Backgrounds == {"image", "white", "black", "red"}

\* (min_value, max_value): the defaults and two narrower ranges.
Ranges == {<<0, 255>>, <<0, 150>>, <<50, 150>>}

Cmaps == {"None", "jet"}

DebugModes == {"None", "print", "plot"}

\* The arguments of the calls of a sequence of calls (small images) ...
SeqFields == {Tiny, Cube, Line}

SeqMasks == {None, TinyMask, SquareMask}

SeqBackgrounds == {"image", "red"}

SeqRanges == {<<0, 255>>, <<50, 150>>}

\* ... and of the single calls on 10 x 10 fields.
Fields == {Const200, Ramp, Cube, Line}

Masks == {None, AllFalse, Pattern}

\* ------------------------------------------------------- pseudocolor: state

NoCall ==
    [called |-> FALSE, dev |-> 0, gray_img |-> None, mask |-> None, cmap |-> "None",
     background |-> "image", min_value |-> 0, max_value |-> 255, obj |-> NoObj,
     axes |-> TRUE, gray_after |-> None, mask_after |-> None, clamped |-> None,
     work_img |-> None, work_mask |-> None, layers |-> <<>>,
     outcome |-> "none", message |-> <<>>, result |-> "none"]

NoFigure == [images |-> <<>>, colorbars |-> <<>>, title |-> "", ticks |-> TRUE]

NoSubtraction ==
    [called |-> FALSE, background_image |-> <<>>, foreground_image |-> <<>>,
     bg_img |-> <<>>, fg_img |-> <<>>, resized |-> "none", outcome |-> "none",
     device |-> 0, fgmask |-> <<>>, printed |-> "", plotted |-> FALSE]

Init ==
    /\ device = 0
    /\ debug = "None"
    /\ fig = NoFigure
    /\ files = <<>>
    /\ plotted = <<>>
    /\ calls = 0
    /\ last = NoCall
    /\ bs = NoSubtraction

\* Mutant: the counter is left as it is.
DeviceUnchanged(d) == d

\* params.device += 1
IncrementDevice(d) == d + 1

\* fatal_error(...): the message of the RuntimeError raised.
Message(outcome, background) ==
    IF outcome = "shape_error" THEN <<"Image must be grayscale.">>
    ELSE IF outcome = "background_error"
         THEN <<"Background type ", background,
                " is not supported. Please use 'white', 'black', or 'image'.">>
         ELSE <<>>

\* What one call computes from its arguments, before anything is drawn.
\* (dpi only reaches plt.savefig; it is left out.)
Compose(gray_img, mask, cmap, background, min_value, max_value, obj, dev) ==
    LET gray   == ImageIsGrayscale(gray_img)
        clamped == RangeClamp(gray_img, min_value, max_value)
        crop   == mask.given /\ obj.given
        rect   == BoundingRect(obj)
        work_img  == IF crop THEN CropWithBuffer(clamped, rect) ELSE clamped
        work_mask == IF crop THEN CropWithBuffer(mask, rect) ELSE mask
        outcome ==
            IF ~gray THEN "shape_error"
            ELSE IF ~mask.given THEN "returned"
            ELSE IF ~MaskCompatible(work_img, work_mask) THEN "mask_error"
            ELSE IF ~BackgroundSupported(background) THEN "background_error"
            ELSE "returned"
        layers ==
            IF outcome # "returned" THEN <<>>
            ELSE IF ~mask.given
                 THEN <<Layer(dev, "image", work_img, NotMasked(work_img), cmap)>>
                 ELSE <<Layer(dev, "background", BkgImg(background, work_img),
                              NotMasked(work_img), BkgCmap(background)),
                        Layer(dev, "overlay", work_img, MaskedOut(work_mask), cmap)>>
    IN  [gray_after |-> IF gray THEN clamped ELSE gray_img,
         mask_after |-> mask,
         clamped    |-> IF gray THEN clamped ELSE None,
         work_img   |-> IF gray THEN work_img ELSE None,
         work_mask  |-> IF gray THEN work_mask ELSE None,
         layers     |-> layers,
         outcome    |-> outcome,
         message    |-> Message(outcome, background)]

\* plt.imshow (once or twice), plt.title, plt.colorbar, plt.xticks/yticks on
\* pyplot's current figure: the function never opens, clears or closes a figure.
Draw(figure, layers, dev, axes) ==
    IF layers = <<>> THEN figure
    ELSE [images    |-> figure.images \o [i \in 1..Len(layers) |-> Handle(layers[i])],
          colorbars |-> Append(figure.colorbars, dev),
          title     |-> "Pseudocolored image",
          ticks     |-> figure.ticks /\ axes]

\* plt.savefig(os.path.join(path, str(params.device) + '_pseudocolored.png'))
FileName(path, dev) == [path |-> path, step |-> dev, suffix |-> "_pseudocolored.png"]

CallRecord(gray_img, mask, cmap, background, min_value, max_value, obj, axes) ==
    [NoCall EXCEPT !.gray_img = gray_img, !.mask = mask, !.cmap = cmap,
                   !.background = background, !.min_value = min_value,
                   !.max_value = max_value, !.obj = obj, !.axes = axes]

Pseudocolor(gray_img, mask, cmap, background, min_value, max_value, obj, axes, path) ==
    /\ calls < MaxCalls
    /\ LET dev == IncrementDevice(device)
           c   == Compose(gray_img, mask, cmap, background, min_value, max_value, obj, dev)
           ret == c.outcome = "returned"
       IN  /\ device' = dev
           /\ calls' = calls + 1
           /\ fig' = Draw(fig, c.layers, dev, axes)
           /\ files' = IF ret /\ debug = "print"
                       THEN Append(files, FileName(path, dev)) ELSE files
           /\ plotted' = IF ret /\ debug = "plot"
                         THEN Append(plotted, Handle(c.layers[1])) ELSE plotted
           /\ last' = [CallRecord(gray_img, mask, cmap, background, min_value, max_value,
                                  obj, axes)
                          EXCEPT !.called = TRUE, !.dev = dev,
                                 !.gray_after = c.gray_after, !.mask_after = c.mask_after,
                                 !.clamped = c.clamped, !.work_img = c.work_img,
                                 !.work_mask = c.work_mask, !.layers = c.layers,
                                 !.outcome = c.outcome, !.message = c.message,
                                 !.result = IF ret THEN "figure" ELSE "none"]
           /\ UNCHANGED <<debug, bs>>

\* params.debug is set by the program that calls pseudocolor.
SetDebug(mode) ==
    /\ mode # debug
    /\ debug' = mode
    /\ UNCHANGED <<device, fig, files, plotted, calls, last, bs>>

\* A process that calls pseudocolor again and again, in any debug mode.
Next ==
    \/ \E gray_img \in SeqFields, mask \in SeqMasks, background \in SeqBackgrounds,
          range \in SeqRanges, obj \in TinyObjs :
          Pseudocolor(gray_img, mask, "None", background, range[1], range[2], obj, TRUE, ".")
    \/ \E mode \in DebugModes : SetDebug(mode)

Spec == Init /\ [][Next]_vars

\* One call on a 10 x 10 field: the arguments are drawn first (last holds them,
\* not yet called), the call is the only step.
InitOne ==
    /\ device = 0
    /\ debug \in DebugModes
    /\ fig = NoFigure
    /\ files = <<>>
    /\ plotted = <<>>
    /\ calls = 0
    /\ last \in {CallRecord(gray_img, mask, cmap, background, range[1], range[2], obj, axes) :
                    gray_img \in Fields, mask \in Masks, cmap \in Cmaps,
                    background \in Backgrounds, range \in Ranges, obj \in Objs,
                    axes \in BOOLEAN}
    /\ bs = NoSubtraction

NextOne ==
    /\ ~last.called
    /\ Pseudocolor(last.gray_img, last.mask, last.cmap, last.background, last.min_value,
                   last.max_value, last.obj, last.axes, ".")

SpecOne == InitOne /\ [][NextOne]_vars

\* ------------------------------------------------- background_subtraction

\* An image is known here by its shape (height, width[, 3 channels]): what
\* cv2.resize and the subtractor put into the samples is OpenCV's business.
BsImages ==
    {<<h, w>> : h \in 1..MaxDim, w \in 1..MaxDim}
        \cup {<<h, w, 3>> : h \in 1..MaxDim, w \in 1..MaxDim}

\* Python's a > b on tuples: the first differing entry decides.
RECURSIVE TupleGreater(_, _)
TupleGreater(a, b) ==
    IF a = <<>> THEN FALSE
    ELSE IF b = <<>> THEN TRUE
    ELSE IF a[1] # b[1] THEN a[1] > b[1]
    ELSE TupleGreater(Tail(a), Tail(b))

\* "if bg_img.shape > fg_img.shape": which image is taken for the larger one.
BgIsLarger(bg_shape, fg_shape) == TupleGreater(bg_shape, fg_shape)

\* cv2.resize(img, (width, height), interpolation=cv2.INTER_AREA)
Resize(img, width, height) == [img EXCEPT ![1] = height, ![2] = width]

\* bgsub.apply(img): a single-channel mask of the image's height and width
Apply(img) == <<img[1], img[2]>>

BackgroundSubtraction(background_image, foreground_image, dev, mode) ==
    LET d       == dev + 1
        differ  == background_image # foreground_image
        typeErr == differ /\ Len(background_image) # Len(foreground_image)
        bgBig   == BgIsLarger(background_image, foreground_image)
        bg_img  == IF differ /\ bgBig
                   THEN Resize(background_image, foreground_image[2], foreground_image[1])
                   ELSE background_image
        fg_img  == IF differ /\ ~bgBig
                   THEN Resize(foreground_image, background_image[2], background_image[1])
                   ELSE foreground_image
    IN  /\ bs' = IF typeErr
                 THEN [NoSubtraction EXCEPT !.called = TRUE,
                          !.background_image = background_image,
                          !.foreground_image = foreground_image,
                          !.outcome = "type_error"]
                 ELSE [called |-> TRUE,
                       background_image |-> background_image,
                       foreground_image |-> foreground_image,
                       bg_img |-> bg_img, fg_img |-> fg_img,
                       resized |-> IF ~differ THEN "none" ELSE IF bgBig THEN "bg" ELSE "fg",
                       outcome |-> "returned", device |-> d, fgmask |-> Apply(fg_img),
                       printed |-> IF mode = "print" THEN "background_subtraction.png" ELSE "",
                       plotted |-> mode = "plot"]
        /\ UNCHANGED <<device, debug, fig, files, plotted, calls, last>>

NextBS ==
    \E background_image \in BsImages, foreground_image \in BsImages, mode \in DebugModes :
        BackgroundSubtraction(background_image, foreground_image, 0, mode)

SpecBS == Init /\ [][NextBS]_vars

\* ------------------------------------------------ what the figure shows

\* The image objects of one figure are drawn in the order of their creation, the
\* later over the earlier; a masked-out entry of a masked array is not drawn.
\* The figure names its images; last.layers holds those of the last call.
LayerOf(handle) ==
    IF handle.by = last.dev /\ \E i \in 1..Len(last.layers) : Handle(last.layers[i]) = handle
    THEN LET i == CHOOSE j \in 1..Len(last.layers) : Handle(last.layers[j]) = handle
         IN  [known |-> TRUE, layer |-> last.layers[i]]
    ELSE [known |-> FALSE, layer |-> Layer(handle.by, handle.role, None, <<>>, "None")]

RECURSIVE VisibleFrom(_, _)
VisibleFrom(i, p) ==
    IF i = 0 THEN [role |-> "none", by |-> 0, cmap |-> "None", value |-> 0]
    ELSE LET l == LayerOf(fig.images[i])
         IN  IF ~l.known
             THEN [role |-> "earlier call", by |-> l.layer.by, cmap |-> "None", value |-> 0]
             ELSE IF p \notin DOMAIN l.layer.data \/ l.layer.masked[p]
                  THEN VisibleFrom(i - 1, p)
                  ELSE [role |-> l.layer.role, by |-> l.layer.by, cmap |-> l.layer.cmap,
                        value |-> l.layer.data[p]]

\* The layer, colormap and sample seen at pixel p of the figure.
Visible(p) == VisibleFrom(Len(fig.images), p)

\* imshow's default norm: vmin and vmax are the least and the greatest sample drawn,
\* a sample becomes (v - vmin) / (vmax - vmin), and 0 when vmin = vmax; the colormap
\* is a table of LutSize colours, indexed by int(norm * LutSize), the last entry at
\* norm = 1.
LutIndex(v, vmin, vmax) ==
    IF vmin = vmax THEN 0
    ELSE LET i == ((v - vmin) * LutSize) \div (vmax - vmin)
         IN  IF i >= LutSize THEN LutSize - 1 ELSE i

\* "gray" runs from black (level 0) to white (level LutSize - 1), "gray_r" is its reverse.
GrayLevel(cmap, index) == IF cmap = "gray_r" THEN (LutSize - 1) - index ELSE index

\* The gray levels of an image (no entry masked out) drawn with a gray colormap.
GrayLevels(img, cmap) ==
    LET samples == {img.data[p] : p \in DOMAIN img.data}
        vmin == SetMin(samples)
        vmax == SetMax(samples)
    IN  [p \in DOMAIN img.data |-> GrayLevel(cmap, LutIndex(img.data[p], vmin, vmax))]

\* ------------------------------------------------------------------ claims

Supported == {"image", "white", "black"}

\* C1: after every call the caller's gray_img and mask hold the samples they held
\* before the call.
C1_CallerBuffersUntouched ==
    last.called => /\ last.gray_after = last.gray_img
                   /\ last.mask_after = last.mask

\* C2: the composite a call returns (the figure) holds only what that call drew:
\* one image without a mask, a background and an overlay with one, and one colorbar.
C2_CompositeIsFresh ==
    last.result = "figure" =>
        /\ \A i \in 1..Len(fig.images) : fig.images[i].by = last.dev
        /\ Len(fig.images) = IF last.mask.given THEN 2 ELSE 1
        /\ fig.colorbars = <<last.dev>>

\* C4 as stated: a call with a background other than "image", "white", "black"
\* raises the unsupported-background error and returns nothing, with or without
\* a mask (read for the calls that pass the shape check, which comes first).
C4_BadBackgroundAlwaysRaises ==
    (last.called /\ last.background \notin Supported /\ Len(last.gray_img.shape) = 2) =>
        /\ last.outcome = "background_error"
        /\ last.result = "none"

\* C4 amended: a call with a 2-D field, a mask of the field's shape and a background
\* other than "image", "white", "black" raises the unsupported-background error,
\* returns nothing and draws nothing; with a 2-D field and no mask the background is
\* not looked at and the call returns its composite.
C4_BadBackgroundRaisesWithMask ==
    (last.called /\ last.background \notin Supported /\ Len(last.gray_img.shape) = 2) =>
        /\ (last.mask.given /\ last.mask.shape = last.gray_img.shape) =>
              /\ last.outcome = "background_error"
              /\ Len(last.message) = 3 /\ last.message[2] = last.background
              /\ last.result = "none"
              /\ last.layers = <<>>
              /\ \A i \in 1..Len(fig.images) : fig.images[i].by # last.dev
              /\ \A i \in 1..Len(files) : files[i].step # last.dev
        /\ ~last.mask.given =>
              /\ last.outcome = "returned"
              /\ last.result = "figure"

C4_Witness ==
    /\ last.called
    /\ last.background = "red"
    /\ last.mask.given
    /\ last.outcome = "background_error"
    /\ debug = "print"

\* C5: a field that has not exactly two dimensions makes the call fail with the
\* shape error before anything else: nothing is clamped or cropped, no layer or
\* colorbar is drawn, no file is written, nothing is shown, nothing is returned.
C5_ShapeErrorFirst ==
    (last.called /\ Len(last.gray_img.shape) # 2) =>
        /\ last.outcome = "shape_error"
        /\ last.message = <<"Image must be grayscale.">>
        /\ last.result = "none"
        /\ last.gray_after = last.gray_img
        /\ last.clamped = None
        /\ last.work_img = None
        /\ last.layers = <<>>
        /\ \A i \in 1..Len(fig.images) : fig.images[i].by # last.dev
        /\ \A i \in 1..Len(fig.colorbars) : fig.colorbars[i] # last.dev
        /\ \A i \in 1..Len(files) : files[i].step # last.dev
        /\ \A i \in 1..Len(plotted) : plotted[i].by # last.dev

C5_Witness ==
    /\ last.called
    /\ Len(last.gray_img.shape) = 3
    /\ last.outcome = "shape_error"
    /\ last.max_value = 150
    /\ debug = "print"
    /\ Len(fig.images) = 2

\* C10: params.device has grown by one with every call made, failed calls included,
\* and no two files written in 'print' mode have the same name.
C10_StepCounter ==
    /\ device = calls
    /\ last.called => last.dev = device
    /\ \A i \in 1..Len(files) : \A j \in 1..Len(files) :
          i # j => files[i] # files[j]

C10_Witness ==
    /\ Len(files) = 2
    /\ files[1].path = files[2].path
    /\ calls = 2

\* C3: every sample that is colorized is min(max(sample, min_value), max_value) of
\* the caller's sample, for every pair of bounds with min_value <= max_value.
C3_ClampExact ==
    (last.outcome = "returned" /\ last.min_value <= last.max_value) =>
        \A p \in DOMAIN last.gray_img.data :
            LET v  == last.gray_img.data[p]
                lo == IF v < last.min_value THEN last.min_value ELSE v
            IN  last.clamped.data[p] = IF lo > last.max_value THEN last.max_value ELSE lo

\* C6: with a mask of the field's shape, the figure shows at every pixel the overlay
\* (the field's sample after the range clamp step, with the caller's colormap) where the mask is
\* non-zero and the background layer (its own sample, its gray colormap) where the
\* mask is zero; with an all-zero mask and the "black" background every pixel shows
\* the zero background in the plain gray colormap.
C6_MaskGated ==
    (last.outcome = "returned" /\ last.mask.given) =>
        LET m   == IF last.obj.given THEN last.work_mask ELSE last.mask
            img == IF last.obj.given THEN last.work_img ELSE last.clamped
        IN  /\ DOMAIN m.data = DOMAIN img.data
            /\ \A p \in DOMAIN img.data :
                  IF m.data[p] # 0
                  THEN Visible(p) = [role |-> "overlay", by |-> last.dev,
                                     cmap |-> last.cmap, value |-> img.data[p]]
                  ELSE Visible(p) =
                          [role |-> "background", by |-> last.dev,
                           cmap |-> IF last.background = "white" THEN "gray_r" ELSE "gray",
                           value |-> IF last.background = "white" THEN 255
                                     ELSE IF last.background = "black" THEN 0
                                     ELSE img.data[p]]
            /\ (last.background = "black" /\ \A p \in DOMAIN m.data : m.data[p] = 0) =>
                  \A p \in DOMAIN img.data :
                      /\ Visible(p).role = "background"
                      /\ Visible(p).value = 0
                      /\ Visible(p).cmap = "gray"

C6_Witness ==
    /\ last.outcome = "returned"
    /\ last.mask.given
    /\ ~last.obj.given
    /\ last.cmap = "jet"
    /\ last.background = "white"
    /\ \E p \in DOMAIN last.mask.data : last.mask.data[p] = 1
    /\ \E p \in DOMAIN last.mask.data : last.mask.data[p] = 0

\* The bounding rectangle of the contour given as obj.
RectOfLast ==
    LET xs == {q[1] : q \in last.obj.points}
        ys == {q[2] : q \in last.obj.points}
        x0 == CHOOSE x \in xs : \A z \in xs : x <= z
        y0 == CHOOSE y \in ys : \A z \in ys : y <= z
        x1 == CHOOSE x \in xs : \A z \in xs : x >= z
        y1 == CHOOSE y \in ys : \A z \in ys : y >= z
    IN  [x |-> x0, y |-> y0, w |-> x1 - x0 + 1, h |-> y1 - y0 + 1]

\* a is the window (x, y, w, h) of src inside a zero border of floor(w/5) columns
\* and floor(h/5) rows.
PaddedWindow(a, src, r) ==
    LET ox == r.w \div 5
        oy == r.h \div 5
    IN  /\ a.shape = <<r.h + 2 * oy, r.w + 2 * ox>>
        /\ DOMAIN a.data = {<<i, j>> : i \in 0..(r.h + 2 * oy - 1), j \in 0..(r.w + 2 * ox - 1)}
        /\ \A p \in DOMAIN a.data :
              IF p[1] \in oy..(oy + r.h - 1) /\ p[2] \in ox..(ox + r.w - 1)
              THEN a.data[p] = src.data[<<r.y + p[1] - oy, r.x + p[2] - ox>>]
              ELSE a.data[p] = 0

\* C7: with mask and obj given and the bounding rectangle (x, y, w, h) inside the
\* field, the field and the mask that are composited are the window of the field
\* after the range clamp step, and of the mask, inside a zero border of floor(w/5) columns and
\* floor(h/5) rows; for (2, 2, 4, 4) they are exactly the 4 x 4 block.
C7_RegionRestriction ==
    (/\ last.called
     /\ Len(last.gray_img.shape) = 2
     /\ last.mask.given
     /\ last.obj.given
     /\ last.mask.shape = last.gray_img.shape
     /\ RectOfLast.y + RectOfLast.h <= last.gray_img.shape[1]
     /\ RectOfLast.x + RectOfLast.w <= last.gray_img.shape[2]) =>
        /\ PaddedWindow(last.work_img, last.clamped, RectOfLast)
        /\ PaddedWindow(last.work_mask, last.mask, RectOfLast)
        /\ \A i \in 1..Len(last.layers) : last.layers[i].shape = last.work_img.shape
        /\ last.outcome = "returned" => last.layers[2].data = last.work_img.data
        /\ RectOfLast = [x |-> 2, y |-> 2, w |-> 4, h |-> 4] =>
              /\ last.work_img.shape = <<4, 4>>
              /\ \A i \in 0..3 : \A j \in 0..3 :
                    last.work_img.data[<<i, j>>] = last.clamped.data[<<2 + i, 2 + j>>]

C7_Witness ==
    /\ last.outcome = "returned"
    /\ last.obj.given
    /\ RectOfLast = [x |-> 1, y |-> 1, w |-> 5, h |-> 4]
    /\ last.min_value = 50
    /\ last.work_img.shape = <<4, 7>>
    /\ last.work_img.data[<<0, 0>>] = 0
    /\ last.work_img.data[<<0, 1>>] = 50

\* C8: at every pixel where the mask is zero, the gray level of the "white"
\* background layer is at least the gray level the "image" background layer has
\* there for the same field.
C8_WhiteNotDarker ==
    (last.outcome = "returned" /\ last.mask.given
        /\ last.background \in {"white", "image"}) =>
        LET drawn == GrayLevels([given |-> TRUE, shape |-> last.layers[1].shape,
                                 data |-> last.layers[1].data], last.layers[1].cmap)
            other == IF last.background = "white" THEN "image" ELSE "white"
            alt   == GrayLevels(BkgImg(other, last.work_img), BkgCmap(other))
        IN  \A p \in DOMAIN last.work_mask.data :
                last.work_mask.data[p] = 0 =>
                    IF last.background = "white" THEN drawn[p] >= alt[p]
                                                 ELSE alt[p] >= drawn[p]

C8_Witness ==
    /\ last.outcome = "returned"
    /\ last.mask.given
    /\ last.background = "white"
    /\ last.layers[1].role = "background"
    /\ \E p \in DOMAIN last.work_mask.data :
          /\ last.work_mask.data[p] = 0
          /\ last.work_img.data[p] = 255
    /\ \E p \in DOMAIN last.work_mask.data :
          /\ last.work_mask.data[p] = 0
          /\ last.work_img.data[p] < 0

\* C9: with the same number of dimensions the call returns, no image has grown in
\* height or width, and both have the same height and width when the subtractor is
\* applied; with different numbers of dimensions the call fails.
C9_LargerImageShrunk ==
    bs.called =>
        IF Len(bs.background_image) # Len(bs.foreground_image)
        THEN bs.outcome = "type_error"
        ELSE /\ bs.outcome = "returned"
             /\ bs.bg_img[1] <= bs.background_image[1]
             /\ bs.bg_img[2] <= bs.background_image[2]
             /\ bs.fg_img[1] <= bs.foreground_image[1]
             /\ bs.fg_img[2] <= bs.foreground_image[2]
             /\ bs.bg_img[1] = bs.fg_img[1]
             /\ bs.bg_img[2] = bs.fg_img[2]

====
